---- MODULE Spec2Model ----
(***************************************************************************)
(* bigquery_data_function.py: a Spotfire data function.  The host injects  *)
(* crop, region, start_date and end_date into the script's global scope,   *)
(* runs the script top to bottom and reads result_df afterwards.           *)
(*                                                                         *)
(* Every text the script handles (inputs, paths, messages, SQL, cells) is  *)
(* a sequence of one-character strings, so that strip(), repr(), join()    *)
(* and "contains" are computed and not assumed.                            *)
(***************************************************************************)
EXTENDS Integers, Sequences, FiniteSets, TLC

VARIABLES
    crop, region, start_date, end_date, \* the names the host injects
    environ,      \* os.environ of the host process
    files,        \* the paths os.path.isfile() answers True for
    pc,           \* position in the try block: start, validated, authenticated, done
    result_df,    \* the output name
    assigned,     \* how many times this invocation bound result_df
    raised,       \* the exception the try body raised, and the step that raised it
    propagated,   \* TRUE when that exception left the script
    steps,        \* the calls of the try body made so far, in order
    envReads,     \* the names looked up in os.environ by this invocation
    client,       \* _client
    sent,         \* the query handed to client.query()
    response,     \* what the warehouse answered
    injected,     \* the four values as the host injected them
    prev          \* the SQL text and crop parameter of the last query of an earlier invocation

vars == <<crop, region, start_date, end_date, environ, files, pc, result_df, assigned,
          raised, propagated, steps, envReads, client, sent, response, injected, prev>>

\* The most rows a warehouse answer has in the model.
MaxRows == 2

-----------------------------------------------------------------------------
(* Python values and text *)

Absent == [tag |-> "unbound", val |-> <<>>]
None == [tag |-> "None", val |-> <<>>]
Str(s) == [tag |-> "str", val |-> s]

Whitespace == {" ", "\t", "\n"}

RECURSIVE lstrip(_)
lstrip(s) == IF s # <<>> /\ Head(s) \in Whitespace THEN lstrip(Tail(s)) ELSE s

RECURSIVE rstrip(_)
rstrip(s) ==
    IF s # <<>> /\ s[Len(s)] \in Whitespace THEN rstrip(SubSeq(s, 1, Len(s) - 1)) ELSE s

strip(s) == rstrip(lstrip(s))

\* not value: None and the empty string are falsy.
Falsy(v) == v.tag = "None" \/ (v.tag = "str" /\ v.val = <<>>)

\* str(value)
str(v) == IF v.tag = "None" THEN <<"N","o","n","e">> ELSE v.val

Chars(s) == {s[i] : i \in 1..Len(s)}

\* The grave accent (U+0060) that quotes the table name in the SQL text; the one
\* character written by name in the texts below.
GRAVE == "GRAVE ACCENT"

RECURSIVE EscapeAll(_, _)
EscapeAll(s, q) ==
    IF s = <<>> THEN <<>>
    ELSE (IF Head(s) = "\\" THEN <<"\\", "\\">>
          ELSE IF Head(s) = q THEN <<"\\", q>>
          ELSE IF Head(s) = "\n" THEN <<"\\", "n">>
          ELSE IF Head(s) = "\t" THEN <<"\\", "t">>
          ELSE <<Head(s)>>) \o EscapeAll(Tail(s), q)

\* repr() of a str: quoted, with backslashes, the quote and control characters escaped.
repr(s) ==
    LET q == IF "'" \in Chars(s) /\ "\"" \notin Chars(s) THEN "\"" ELSE "'"
    IN <<q>> \o EscapeAll(s, q) \o <<q>>

RECURSIVE join(_, _)
join(sep, parts) ==
    IF parts = <<>> THEN <<>>
    ELSE IF Len(parts) = 1 THEN parts[1]
    ELSE parts[1] \o sep \o join(sep, Tail(parts))

Contains(hay, needle) ==
    \E i \in 0..(Len(hay) - Len(needle)) : SubSeq(hay, i + 1, i + Len(needle)) = needle

-----------------------------------------------------------------------------
(* Exceptions *)

NoExc == [cls |-> "", msg |-> <<>>]
Exc(cls, msg) == [cls |-> cls, msg |-> msg]

\* The base class of each exception class the script can meet.  EnvironmentError is
\* an alias of OSError; json.JSONDecodeError derives from ValueError.
Base(cls) ==
    CASE cls \in {"ValueError", "OSError", "NameError", "GoogleAPIError", "GoogleAuthError"}
            -> "Exception"
      [] cls = "JSONDecodeError" -> "ValueError"
      [] cls \in {"PermissionError", "ConnectionError"} -> "OSError"
      [] cls \in {"Forbidden", "BadRequest"} -> "GoogleAPIError"
      [] cls = "RefreshError" -> "GoogleAuthError"
      [] OTHER -> "BaseException"

RECURSIVE IsInstance(_, _)
IsInstance(cls, of) ==
    \/ cls = of
    \/ cls \notin {"BaseException", ""} /\ IsInstance(Base(cls), of)

-----------------------------------------------------------------------------
(* Module constants, lines 55-72 *)

os_environ_get(name, default) ==
    IF environ[name].tag = "str" THEN environ[name].val ELSE default

BQ_PROJECT == os_environ_get("BQ_PROJECT", <<"y","o","u","r","-","g","c","p","-","p","r","o","j","e","c","t","-","i","d">>)
BQ_DATASET == os_environ_get("BQ_DATASET", <<"y","o","u","r","_","d","a","t","a","s","e","t">>)
BQ_TABLE == os_environ_get("BQ_TABLE", <<"y","o","u","r","_","t","a","b","l","e">>)

ENV_KEY == "BQ_SERVICE_ACCOUNT_JSON"
ENV_KEY_TEXT == <<"B","Q","_","S","E","R","V","I","C","E","_","A","C","C","O","U","N","T","_","J","S","O",
      "N">>

\* _QUERY_TEMPLATE.format(project=..., dataset=..., table=...)
QUERY_TEMPLATE(project, dataset, table) ==
    <<"\n","S","E","L","E","C","T"," ","*","\n","F","R","O","M"," ",GRAVE>> \o project \o <<".">> \o dataset \o <<".">> \o table
    \o <<GRAVE,"\n","W","H","E","R","E"," ","c","r","o","p"," "," "," ","="," ","@","c","r","o",
      "p","\n"," "," ","A","N","D"," ","r","e","g","i","o","n"," ","="," ","@","r","e","g",
      "i","o","n","\n"," "," ","A","N","D"," ","d","a","t","e"," "," ",">","="," ","@","s",
      "t","a","r","t","_","d","a","t","e","\n"," "," ","A","N","D"," ","d","a","t","e"," ",
      " ","<","="," ","@","e","n","d","_","d","a","t","e","\n","O","R","D","E","R"," ","B",
      "Y"," ","d","a","t","e","\n">>

-----------------------------------------------------------------------------
(* _validate_inputs, lines 79-95 *)

ArgNames == <<<<"c","r","o","p">>, <<"r","e","g","i","o","n">>, <<"s","t","a","r","t","_","d","a","t","e">>, <<"e","n","d","_","d","a","t","e">>>>

MissingPrefix == <<"T","h","e"," ","f","o","l","l","o","w","i","n","g"," ","r","e","q","u","i","r","e","d",
      " ","i","n","p","u","t","s"," ","a","r","e"," ","m","i","s","s","i","n","g"," ","o","r",
      " ","e","m","p","t","y",":"," ">>

\* A validator that forgets .strip(): if not value.
IsMissingNoStrip(value) == Falsy(value)

\* not value or not str(value).strip()
IsMissing(value) == Falsy(value) \/ strip(str(value)) = <<>>

RECURSIVE Select(_, _, _)
Select(names, values, i) ==
    IF i > Len(names) THEN <<>>
    ELSE (IF IsMissing(values[i]) THEN <<names[i]>> ELSE <<>>) \o Select(names, values, i + 1)

\* The exception _validate_inputs raises, NoExc when it returns.
validate_inputs(c, r, s, e) ==
    LET missing == Select(ArgNames, <<c, r, s, e>>, 1)
    IN IF missing # <<>>
       THEN Exc("ValueError", MissingPrefix \o join(<<","," ">>, missing))
       ELSE NoExc

\* Line 155 evaluates the four names left to right before the call: the first name the
\* host did not inject raises NameError.
RECURSIVE LoadNames(_, _, _)
LoadNames(names, values, i) ==
    IF i > Len(names) THEN NoExc
    ELSE IF values[i] = Absent
         THEN Exc("NameError", <<"n","a","m","e"," ","'">> \o names[i] \o <<"'"," ","i","s"," ","n","o","t"," ","d","e","f","i","n","e","d">>)
         ELSE LoadNames(names, values, i + 1)

-----------------------------------------------------------------------------
(* _build_client, lines 98-123 *)

NoClient == [built |-> FALSE, project |-> <<>>, key_path |-> <<>>]

EnvNotSetMsg ==
    <<"E","n","v","i","r","o","n","m","e","n","t"," ","v","a","r","i","a","b","l","e"," ","'">> \o ENV_KEY_TEXT
    \o <<"'"," ","i","s"," ","n","o","t"," ","s","e","t","."," "," ","S","e","t"," ","i","t"," ",
      "t","o"," ","t","h","e"," ","p","a","t","h"," ","o","f"," ","y","o","u","r"," ","G","o",
      "o","g","l","e"," ","C","l","o","u","d"," ","s","e","r","v","i","c","e","-","a","c","c",
      "o","u","n","t"," ","J","S","O","N"," ","k","e","y"," ","f","i","l","e",".">>

NotFoundMsg(key_path) ==
    <<"S","e","r","v","i","c","e","-","a","c","c","o","u","n","t"," ","k","e","y"," ","f","i",
      "l","e"," ","n","o","t"," ","f","o","u","n","d",":"," ">> \o repr(key_path)
    \o <<"."," "," ","V","e","r","i","f","y"," ","t","h","e"," ","p","a","t","h"," ","s","t","o",
      "r","e","d"," ","i","n"," ","t","h","e"," ","'">> \o ENV_KEY_TEXT \o <<"'"," ","e","n","v","i","r","o","n","m","e","n","t"," ","v","a","r","i","a","b","l","e",
      ".">>

SdkMessages == {<<"m","e","s","s","a","g","e"," ","o","n","e">>, <<"m","e","s","s","a","g","e"," ","t","w","o">>}

\* What service_account.Credentials.from_service_account_file and bigquery.Client can
\* do with an existing file: succeed, or raise (a key file that is not JSON raises
\* json.JSONDecodeError, an unreadable one PermissionError, other defects a
\* google.auth exception).
CredentialOutcomes ==
    {NoExc} \cup {Exc(c, m) : c \in {"JSONDecodeError", "PermissionError", "GoogleAuthError"},
                              m \in SdkMessages}

\* A _build_client without the os.path.isfile() test.
build_client_no_isfile(sdk) ==
    LET key_path == strip(os_environ_get(ENV_KEY, <<>>))
    IN IF key_path = <<>>
       THEN [exc |-> Exc("OSError", EnvNotSetMsg), client |-> NoClient]
       ELSE IF sdk # NoExc
       THEN [exc |-> sdk, client |-> NoClient]
       ELSE [exc |-> NoExc,
             client |-> [built |-> TRUE, project |-> BQ_PROJECT, key_path |-> key_path]]

\* The result of _build_client() when the SDK answers sdk: the client, or the exception.
build_client(sdk) ==
    LET key_path == strip(os_environ_get(ENV_KEY, <<>>))
    IN IF key_path = <<>>
       THEN [exc |-> Exc("OSError", EnvNotSetMsg), client |-> NoClient]
       ELSE IF key_path \notin files
       THEN [exc |-> Exc("OSError", NotFoundMsg(key_path)), client |-> NoClient]
       ELSE IF sdk # NoExc
       THEN [exc |-> sdk, client |-> NoClient]
       ELSE [exc |-> NoExc,
             client |-> [built |-> TRUE, project |-> BQ_PROJECT, key_path |-> key_path]]

-----------------------------------------------------------------------------
(* _run_query, lines 126-144 *)

NoQuery == [sql |-> <<>>, params |-> <<>>]

ScalarQueryParameter(name, type, value) == [name |-> name, type |-> type, value |-> value]

query_parameters(c, r, s, e) ==
    <<ScalarQueryParameter("crop", "STRING", strip(str(c))),
      ScalarQueryParameter("region", "STRING", strip(str(r))),
      ScalarQueryParameter("start_date", "DATE", strip(str(s))),
      ScalarQueryParameter("end_date", "DATE", strip(str(e)))>>

\* A query text built with the crop value pasted into it.
format_sql_interpolated(project, dataset, table) ==
    <<"\n","S","E","L","E","C","T"," ","*","\n","F","R","O","M"," ">> \o <<GRAVE>> \o project \o <<".">> \o dataset \o <<".">> \o table \o <<GRAVE>>
    \o <<"\n","W","H","E","R","E"," ","c","r","o","p"," "," "," ","="," ","'">> \o strip(str(crop))
    \o <<"'","\n"," "," ","A","N","D"," ","r","e","g","i","o","n"," ","="," ","@","r","e","g",
      "i","o","n","\n"," "," ","A","N","D"," ","d","a","t","e"," "," ",">","="," ","@","s",
      "t","a","r","t","_","d","a","t","e","\n"," "," ","A","N","D"," ","d","a","t","e"," ",
      " ","<","="," ","@","e","n","d","_","d","a","t","e","\n","O","R","D","E","R"," ","B",
      "Y"," ","d","a","t","e","\n">>

format_sql(project, dataset, table) == QUERY_TEMPLATE(project, dataset, table)

\* The columns and rows of the remote table, as the warehouse sends them.
TableColumns == <<"crop", "region", "date", "yield">>
TableRows ==
    {<<<<"a">>, <<"a">>, <<"2","0","2","3","-","0","1","-","0","1">>, <<"5">>>>, <<<<"a">>, <<"a">>, <<"2","0","2","3","-","0","2","-","0","1">>, <<"3">>>>}

RowSeqs == UNION {[1..n -> TableRows] : n \in 0..MaxRows}

\* client.query(...).result(): rows, or an exception of whatever class the SDK raises
\* (a warehouse API error, an I/O error of the transport, a token refresh failure,
\* a ValueError of the row conversion).
WarehouseOutcomes ==
    {[exc |-> NoExc, rows |-> rows] : rows \in RowSeqs}
    \cup {[exc |-> Exc(c, m), rows |-> <<>>] :
            c \in {"Forbidden", "BadRequest", "ConnectionError", "RefreshError", "ValueError"},
            m \in SdkMessages}

DataFrame(columns, rows) == [columns |-> columns, rows |-> rows]

RECURSIVE DropDuplicates(_)
DropDuplicates(rows) ==
    IF Len(rows) < 2 THEN rows
    ELSE LET rest == DropDuplicates(SubSeq(rows, 1, Len(rows) - 1))
         IN IF \E i \in 1..Len(rest) : rest[i] = rows[Len(rows)]
            THEN rest
            ELSE Append(rest, rows[Len(rows)])

\* A materialisation that drops repeated rows.
to_dataframe_drop_duplicates(rows) == DataFrame(TableColumns, DropDuplicates(rows))

to_dataframe(rows) == DataFrame(TableColumns, rows)

\* The result of _run_query when the warehouse answers w: the query sent, and the
\* frame returned or the exception raised.
run_query(cl, c, r, s, e, w) ==
    [sent |-> [sql |-> format_sql(BQ_PROJECT, BQ_DATASET, BQ_TABLE),
               params |-> query_parameters(c, r, s, e)],
     exc |-> w.exc,
     df |-> to_dataframe(w.rows)]

-----------------------------------------------------------------------------
(* The top-level try/except, lines 153-185 *)

Unbound == DataFrame(<<>>, <<>>)

AuthConfigError == <<"A","u","t","h","e","n","t","i","c","a","t","i","o","n"," ","c","o","n","f","i","g","u",
      "r","a","t","i","o","n"," ","e","r","r","o","r">>
MissingInputs == <<"M","i","s","s","i","n","g"," ","i","n","p","u","t"," ","p","a","r","a","m","e","t","e",
      "r","s">>
BigQueryError == <<"B","i","g","Q","u","e","r","y"," ","A","P","I"," ","e","r","r","o","r">>
UnexpectedError == <<"U","n","e","x","p","e","c","t","e","d"," ","e","r","r","o","r">>

ErrorFrame(category, details) == DataFrame(<<"Error", "Details">>, <<<<category, details>>>>)

\* The clauses without the final except Exception.
except_clauses_no_catch_all(exc) ==
    IF IsInstance(exc.cls, "OSError") THEN <<ErrorFrame(AuthConfigError, exc.msg)>>
    ELSE IF IsInstance(exc.cls, "ValueError") THEN <<ErrorFrame(MissingInputs, exc.msg)>>
    ELSE IF IsInstance(exc.cls, "GoogleAPIError") THEN <<ErrorFrame(BigQueryError, exc.msg)>>
    ELSE <<>>

\* Clauses that start from an empty frame before they build the error table.
except_clauses_two_assignments(exc) ==
    IF IsInstance(exc.cls, "OSError")
    THEN <<DataFrame(<<>>, <<>>), ErrorFrame(AuthConfigError, exc.msg)>>
    ELSE IF IsInstance(exc.cls, "ValueError")
    THEN <<DataFrame(<<>>, <<>>), ErrorFrame(MissingInputs, exc.msg)>>
    ELSE IF IsInstance(exc.cls, "GoogleAPIError")
    THEN <<DataFrame(<<>>, <<>>), ErrorFrame(BigQueryError, exc.msg)>>
    ELSE IF IsInstance(exc.cls, "Exception")
    THEN <<DataFrame(<<>>, <<>>), ErrorFrame(UnexpectedError, exc.msg)>>
    ELSE <<>>

\* The except clauses in their order: the frames the matching clause binds to
\* result_df, none when no clause matches.
except_clauses(exc) ==
    IF IsInstance(exc.cls, "OSError") THEN <<ErrorFrame(AuthConfigError, exc.msg)>>
    ELSE IF IsInstance(exc.cls, "ValueError") THEN <<ErrorFrame(MissingInputs, exc.msg)>>
    ELSE IF IsInstance(exc.cls, "GoogleAPIError") THEN <<ErrorFrame(BigQueryError, exc.msg)>>
    ELSE IF IsInstance(exc.cls, "Exception") THEN <<ErrorFrame(UnexpectedError, exc.msg)>>
    ELSE <<>>

NotRaised == [cls |-> "", msg |-> <<>>, step |-> ""]

\* The try body raised exc in step: the matching clause runs and the script ends.
Raise(exc, step) ==
    LET frames == except_clauses(exc)
    IN /\ raised' = [cls |-> exc.cls, msg |-> exc.msg, step |-> step]
       /\ propagated' = (frames = <<>>)
       /\ assigned' = assigned + Len(frames)
       /\ result_df' = IF frames = <<>> THEN result_df ELSE frames[Len(frames)]
       /\ pc' = "done"

\* Line 155.
Validate ==
    /\ pc = "start"
    /\ steps' = Append(steps, "validate_inputs")
    /\ LET args == <<crop, region, start_date, end_date>>
           exc == IF LoadNames(ArgNames, args, 1) # NoExc
                  THEN LoadNames(ArgNames, args, 1)
                  ELSE validate_inputs(crop, region, start_date, end_date)
       IN IF exc = NoExc
          THEN /\ pc' = "validated"
               /\ UNCHANGED <<result_df, assigned, raised, propagated>>
          ELSE Raise(exc, "validate_inputs")
    /\ UNCHANGED <<crop, region, start_date, end_date, environ, files, envReads, client,
                   sent, response, injected, prev>>

\* Line 158, reached from the positions in after.
BuildClientAfter(after) ==
    /\ pc \in after
    /\ steps' = Append(steps, "build_client")
    /\ envReads' = envReads \cup {ENV_KEY}
    /\ \E sdk \in CredentialOutcomes :
         LET r == build_client(sdk)
         IN IF r.exc = NoExc
            THEN /\ client' = r.client
                 /\ pc' = "authenticated"
                 /\ UNCHANGED <<result_df, assigned, raised, propagated>>
            ELSE /\ Raise(r.exc, "build_client")
                 /\ UNCHANGED client
    /\ UNCHANGED <<crop, region, start_date, end_date, environ, files, sent, response,
                   injected, prev>>

\* A try body that builds the client without waiting for the validation.
BuildClientEager == BuildClientAfter({"start", "validated"})

BuildClient == BuildClientAfter({"validated"})

NoResponse == [exc |-> NoExc, rows |-> <<>>, got |-> FALSE]

\* Line 161.
RunQuery ==
    /\ pc = "authenticated"
    /\ steps' = Append(steps, "run_query")
    /\ \E w \in WarehouseOutcomes :
         LET r == run_query(client, crop, region, start_date, end_date, w)
         IN /\ sent' = r.sent
            /\ response' = [exc |-> w.exc, rows |-> w.rows, got |-> TRUE]
            /\ IF r.exc = NoExc
               THEN /\ result_df' = r.df
                    /\ assigned' = assigned + 1
                    /\ pc' = "done"
                    /\ UNCHANGED <<raised, propagated>>
               ELSE Raise(r.exc, "run_query")
    /\ UNCHANGED <<crop, region, start_date, end_date, environ, files, envReads, client,
                   injected, prev>>

-----------------------------------------------------------------------------
(* The host *)

InputValues == {Absent, None, Str(<<>>), Str(<<" "," ">>), Str(<<"a">>), Str(<<" ","b"," ">>)}

KeyPathValues ==
    {Absent, Str(<<>>), Str(<<" ">>), Str(<<"k">>), Str(<<" ","k"," ">>), Str(<<"m">>), Str(<<"k","\\","m">>)}

EnvNames == {"BQ_PROJECT", "BQ_DATASET", "BQ_TABLE", ENV_KEY}

\* os.environ with the credential variable k, and the three target names set or not.
Environ(k, target) ==
    [n \in EnvNames |->
        IF n = ENV_KEY THEN k
        ELSE IF ~target THEN Absent
        ELSE IF n = "BQ_PROJECT" THEN Str(<<"p">>)
        ELSE IF n = "BQ_DATASET" THEN Str(<<"d">>)
        ELSE Str(<<"t">>)]

\* Lines 55-57 look up the three target names each time the script is run.
ModuleReads == {"BQ_PROJECT", "BQ_DATASET", "BQ_TABLE"}

NoPrev == [sql |-> <<>>, crop |-> <<>>]

Init ==
    /\ crop \in InputValues
    /\ region \in InputValues
    /\ start_date \in InputValues
    /\ end_date \in InputValues
    /\ environ \in {Environ(k, t) : k \in KeyPathValues, t \in BOOLEAN}
    /\ files \in {{}, {<<"k">>}}
    /\ pc = "start"
    /\ result_df = Unbound
    /\ assigned = 0
    /\ raised = NotRaised
    /\ propagated = FALSE
    /\ steps = <<>>
    /\ envReads = ModuleReads
    /\ client = NoClient
    /\ sent = NoQuery
    /\ response = NoResponse
    /\ injected = <<crop, region, start_date, end_date>>
    /\ prev = NoPrev

\* The host changes one input and runs the script again, in the same process.
Invoke ==
    /\ pc = "done"
    /\ \E v \in InputValues :
         \/ crop' = v /\ v # crop /\ UNCHANGED <<region, start_date, end_date>>
         \/ region' = v /\ v # region /\ UNCHANGED <<crop, start_date, end_date>>
         \/ start_date' = v /\ v # start_date /\ UNCHANGED <<crop, region, end_date>>
         \/ end_date' = v /\ v # end_date /\ UNCHANGED <<crop, region, start_date>>
    /\ prev' = IF sent # NoQuery
               THEN [sql |-> sent.sql, crop |-> sent.params[1].value]
               ELSE prev
    /\ pc' = "start"
    /\ result_df' = Unbound
    /\ assigned' = 0
    /\ raised' = NotRaised
    /\ propagated' = FALSE
    /\ steps' = <<>>
    /\ envReads' = ModuleReads
    /\ client' = NoClient
    /\ sent' = NoQuery
    /\ response' = NoResponse
    /\ injected' = <<crop', region', start_date', end_date'>>
    /\ UNCHANGED <<environ, files>>

Next == Validate \/ BuildClient \/ RunQuery \/ Invoke

Spec == Init /\ [][Next]_vars

-----------------------------------------------------------------------------
(* Properties *)

Args == <<crop, region, start_date, end_date>>

\* An input that is absent, null, or empty after trimming.
Offending(v) == v = Absent \/ v = None \/ (v.tag = "str" /\ strip(v.val) = <<>>)

ValidInputs == \A i \in 1..4 : ~Offending(Args[i])

Done == pc = "done"
Failed == raised # NotRaised

IsErrorTable(df) ==
    /\ df.columns = <<"Error", "Details">>
    /\ Len(df.rows) = 1
    /\ Len(df.rows[1]) = 2

Category(df) == df.rows[1][1]
Details(df) == df.rows[1][2]

\* The configured credential path: unset or blank after trimming, or naming no file.
KeyValue == environ[ENV_KEY]
KeyBlank == KeyValue.tag # "str" \/ strip(KeyValue.val) = <<>>
KeyNoFile == ~KeyBlank /\ strip(KeyValue.val) \notin files

\* C1: an invocation that has ended has bound result_df exactly once, to the
\* warehouse's table when nothing was raised and to the one-row error table when
\* something was; before the end nothing is bound, so no table is bound and replaced.
C1_AssignedExactlyOnce ==
    /\ ~Done => assigned = 0 /\ result_df = Unbound
    /\ Done =>
         /\ assigned = 1
         /\ IF Failed
            THEN IsErrorTable(result_df) /\ result_df # to_dataframe(response.rows)
            ELSE response.got /\ result_df = to_dataframe(response.rows)
                 /\ ~IsErrorTable(result_df)

\* C1 witness: the query was sent, the warehouse raised, and the invocation has ended.
C1_Witness == Done /\ Failed /\ raised.step = "run_query" /\ response.got

\* C2: when at least one input is null, absent or whitespace-only, the result is the
\* error table "Missing input parameters" whose Details names exactly the offending
\* inputs, whatever the credential configuration.
C2_MissingInputsReported ==
    (Done /\ ~ValidInputs) =>
        /\ IsErrorTable(result_df)
        /\ Category(result_df) = MissingInputs
        /\ \A i \in 1..4 : Offending(Args[i]) <=> Contains(Details(result_df), ArgNames[i])

\* C3 as stated: with valid inputs and a credential path that is unset, blank or no
\* file, the result is "Authentication configuration error", with the configured path
\* in Details when the file does not exist, and neither client nor query.
C3_DetailsContainThePath ==
    (Done /\ ValidInputs /\ (KeyBlank \/ KeyNoFile)) =>
        /\ IsErrorTable(result_df)
        /\ Category(result_df) = AuthConfigError
        /\ KeyNoFile => Contains(Details(result_df), strip(KeyValue.val))
        /\ ~client.built
        /\ sent = NoQuery

\* C3 amended: as C3, but what Details contains in the no-file case is repr() of the
\* trimmed path: the path in quotes, with backslashes and quotes escaped.
C3_DetailsContainTheReprOfThePath ==
    (Done /\ ValidInputs /\ (KeyBlank \/ KeyNoFile)) =>
        /\ IsErrorTable(result_df)
        /\ Category(result_df) = AuthConfigError
        /\ KeyNoFile => Contains(Details(result_df), repr(strip(KeyValue.val)))
        /\ ~client.built
        /\ sent = NoQuery
        /\ ~response.got

\* C3 witness: valid inputs, a path with a backslash that names no file, ended.
C3_Witness == Done /\ ValidInputs /\ KeyNoFile /\ "\\" \in Chars(KeyValue.val)

\* C4: whatever the warehouse raises while the query runs or its result is
\* materialised, the result is "BigQuery API error" with the exception's message.
C4_WarehouseFailureIsApiError ==
    (Done /\ Failed /\ raised.step = "run_query") =>
        /\ IsErrorTable(result_df)
        /\ Category(result_df) = BigQueryError
        /\ Details(result_df) = raised.msg

StepOrder == <<"validate_inputs", "build_client", "run_query">>

C6_CategoryNamesTheFailedStep ==
    (Done /\ Failed) =>
        /\ Category(result_df) = MissingInputs => raised.step = "validate_inputs"
        /\ Category(result_df) = AuthConfigError => raised.step = "build_client"
        /\ Category(result_df) = BigQueryError => raised.step = "run_query"

\* The exception classes of the model that none of the first three clauses names.
Unclassified == {"NameError", "GoogleAuthError", "RefreshError"}

\* C7: whatever step raises, the exception does not leave the script and the result
\* is a table of the two columns Error and Details with one row; an exception of a
\* class outside the taxonomy is labelled "Unexpected error".
C7_EveryFailureCaught ==
    Failed =>
        /\ Done
        /\ ~propagated
        /\ assigned > 0
        /\ IsErrorTable(result_df)
        /\ raised.cls \in Unclassified => Category(result_df) = UnexpectedError
        /\ Details(result_df) = raised.msg

\* C7 witness: a token refresh failure raised while the query ran.
C7_Witness == Done /\ Failed /\ raised.cls = "RefreshError" /\ raised.step = "run_query"

FilterText ==
    <<"\n","W","H","E","R","E"," ","c","r","o","p"," "," "," ","="," ","@","c","r","o","p",
      "\n"," "," ","A","N","D"," ","r","e","g","i","o","n"," ","="," ","@","r","e","g","i",
      "o","n","\n"," "," ","A","N","D"," ","d","a","t","e"," "," ",">","="," ","@","s","t",
      "a","r","t","_","d","a","t","e","\n"," "," ","A","N","D"," ","d","a","t","e"," "," ",
      "<","="," ","@","e","n","d","_","d","a","t","e","\n","O","R","D","E","R"," ","B","Y",
      " ","d","a","t","e","\n">>

\* C8: the SQL text of a query is the text of the query sent by an earlier invocation
\* of the same process (same project, dataset and table), whatever the inputs were;
\* it ends with the equality filters on crop and region, the inclusive date range and
\* ORDER BY date; the inputs travel as the four parameters crop STRING, region STRING,
\* start_date DATE, end_date DATE.
C8_SqlTextIndependentOfInputs ==
    sent # NoQuery =>
        /\ prev # NoPrev => sent.sql = prev.sql
        /\ Len(sent.sql) > Len(FilterText)
        /\ SubSeq(sent.sql, Len(sent.sql) - Len(FilterText) + 1, Len(sent.sql)) = FilterText
        /\ Len(sent.params) = 4
        /\ [i \in 1..4 |-> sent.params[i].name] = <<"crop", "region", "start_date", "end_date">>
        /\ [i \in 1..4 |-> sent.params[i].type] = <<"STRING", "STRING", "DATE", "DATE">>
        /\ \A i \in 1..4 : sent.params[i].value = strip(str(Args[i]))

\* C8 witness: a second query of the process, with another crop than the first.
C8_Witness == sent # NoQuery /\ prev # NoPrev /\ prev.crop # sent.params[1].value

\* C9: when nothing is raised, result_df holds the warehouse's rows: the same rows,
\* as many, in the order received.
C9_RowsPassThrough ==
    (Done /\ ~Failed) =>
        /\ response.got
        /\ result_df.rows = response.rows
        /\ result_df.columns = TableColumns

\* C9 witness: the warehouse answered with a repeated row.
C9_Witness ==
    /\ Done /\ ~Failed
    /\ Len(response.rows) >= 2
    /\ response.rows[1] = response.rows[2]

\* C10: each parameter of a query that is sent is the trimmed text of its input, is
\* not empty and neither starts nor ends with whitespace; the four names still hold
\* what the host injected.
C10_ParametersAreTrimmedInputs ==
    /\ Args = injected
    /\ sent # NoQuery =>
         \A i \in 1..4 :
            LET v == sent.params[i].value
            IN /\ v = strip(str(injected[i]))
               /\ v # <<>>
               /\ v[1] \notin Whitespace
               /\ v[Len(v)] \notin Whitespace

\* C10 witness: a query was sent for a crop injected with surrounding blanks.
C10_Witness == sent # NoQuery /\ crop = Str(<<" ","b"," ">>)

====
